---- MODULE Spec2Model ----
(***************************************************************************)
(* Model of psiphon/LookupIP.go: LookupIP and bindLookupIP, the            *)
(* device-bound DNS lookup.  A call is a sequence of steps (one action per *)
(* statement group of bindLookupIP); the kernel's descriptor table, the    *)
(* clock and the resolver are the environment.                             *)
(*                                                                         *)
(* Strings are sequences of one-character strings, so that net.ParseIP is  *)
(* computed from the text and not assumed.                                 *)
(***************************************************************************)
EXTENDS Integers, Sequences, FiniteSets, TLC

(***************************************************************************)
(* Bounds of the model.                                                    *)
(***************************************************************************)
NumProcs == 2      \* callers (goroutines) the model has room for
MaxFd == 3         \* descriptor numbers 1..MaxFd (lowest free one is handed out)
MaxTimeout == 2    \* config.ConnectTimeout ranges over 0..MaxTimeout
MaxTime == 2       \* the clock runs freely up to MaxTime

(***************************************************************************)
(* Program constants.                                                      *)
(***************************************************************************)
DNS_PORT == 53
IPv4len == 4
IPv6len == 16

(***************************************************************************)
(* net.ParseIP, as the Go library computes it (net/netip ParseAddr): the   *)
(* first '.' or ':' of the text selects the IPv4 or the IPv6 parser.  An   *)
(* IP is a sequence of IPv6len bytes (an IPv4 address in its IPv4-in-IPv6  *)
(* form); NilIP is Go's nil slice.                                         *)
(***************************************************************************)
NilIP == <<>>

DecDigits == <<"0", "1", "2", "3", "4", "5", "6", "7", "8", "9">>
HexLower == <<"0", "1", "2", "3", "4", "5", "6", "7", "8", "9", "a", "b", "c", "d", "e", "f">>
HexUpper == <<"0", "1", "2", "3", "4", "5", "6", "7", "8", "9", "A", "B", "C", "D", "E", "F">>

IsDigit(c) == \E i \in 1..Len(DecDigits) : DecDigits[i] = c
IsHex(c) == \E i \in 1..Len(HexLower) : HexLower[i] = c \/ HexUpper[i] = c
HexVal(c) == (CHOOSE i \in 1..Len(HexLower) : HexLower[i] = c \/ HexUpper[i] = c) - 1

Tail2(s, n) == SubSeq(s, n + 1, Len(s))     \* Go's s[n:]

\* netip.parseIPv4Fields: four decimal fields 0..255 separated by dots, no
\* leading zero, nothing else.  Yields the 4 bytes, or <<>> on error.
RECURSIVE parseIPv4Fields(_, _, _, _, _, _)
parseIPv4Fields(s, i, val, pos, digLen, fields) ==
    IF i > Len(s)
    THEN IF pos < IPv4len - 1 THEN <<>> ELSE Append(fields, val)
    ELSE IF IsDigit(s[i])
    THEN IF digLen = 1 /\ val = 0
         THEN <<>>
         ELSE LET v == val * 10 + HexVal(s[i])
              IN  IF v > 255 THEN <<>>
                  ELSE parseIPv4Fields(s, i + 1, v, pos, digLen + 1, fields)
    ELSE IF s[i] = "."
    THEN IF i = 1 \/ i = Len(s) \/ s[i - 1] = "."
         THEN <<>>
         ELSE IF pos = IPv4len - 1 THEN <<>>
              ELSE parseIPv4Fields(s, i + 1, 0, pos + 1, 0, Append(fields, val))
    ELSE <<>>

Zeros(n) == [i \in 1..n |-> 0]

\* net.IPv4(a, b, c, d): the 16-byte form with the v4InV6Prefix.
IPv4(b) == Zeros(10) \o <<255, 255>> \o b

parseIPv4(s) ==
    LET b == parseIPv4Fields(s, 1, 0, 0, 0, <<>>)
    IN  IF b = <<>> THEN NilIP ELSE IPv4(b)

\* The hex group at the head of s: [off, acc, ok] (off digits read, at most 4).
RECURSIVE hexGroup(_, _, _)
hexGroup(s, off, acc) ==
    IF off < Len(s) /\ IsHex(s[off + 1])
    THEN IF off > 3 THEN [off |-> off, acc |-> acc, ok |-> FALSE]
         ELSE hexGroup(s, off + 1, acc * 16 + HexVal(s[off + 1]))
    ELSE [off |-> off, acc |-> acc, ok |-> off > 0]

\* The loop of netip.parseIPv6: hex groups followed by colons, at most one
\* "::" (ellipsis, kept as the byte offset it stands at, -1 for none) and an
\* optional trailing dotted IPv4.  ip is the bytes parsed so far.
\* Yields [ok, ip, ellipsis]; ok is FALSE on every error return.
RECURSIVE parseIPv6Loop(_, _, _)
parseIPv6Loop(s, ip, ellipsis) ==
    LET i == Len(ip)
        bad == [ok |-> FALSE, ip |-> ip, ellipsis |-> ellipsis]
        g == hexGroup(s, 0, 0)
    IN  IF i >= IPv6len
        THEN [ok |-> Len(s) = 0, ip |-> ip, ellipsis |-> ellipsis]
        ELSE IF ~g.ok THEN bad
        ELSE IF g.off < Len(s) /\ s[g.off + 1] = "."
        THEN IF ellipsis < 0 /\ i # IPv6len - IPv4len THEN bad
             ELSE IF i + IPv4len > IPv6len THEN bad
             ELSE LET b == parseIPv4Fields(s, 1, 0, 0, 0, <<>>)
                  IN  IF b = <<>> THEN bad
                      ELSE [ok |-> TRUE, ip |-> ip \o b, ellipsis |-> ellipsis]
        ELSE LET ip2 == ip \o <<g.acc \div 256, g.acc % 256>>
                 s2 == Tail2(s, g.off)
             IN  IF Len(s2) = 0
                 THEN [ok |-> TRUE, ip |-> ip2, ellipsis |-> ellipsis]
                 ELSE IF s2[1] # ":" \/ Len(s2) = 1
                 THEN bad
                 ELSE LET s3 == Tail2(s2, 1)
                      IN  IF s3[1] = ":"
                          THEN IF ellipsis >= 0 THEN bad
                               ELSE IF Len(s3) = 1
                               THEN [ok |-> TRUE, ip |-> ip2, ellipsis |-> Len(ip2)]
                               ELSE parseIPv6Loop(Tail2(s3, 1), ip2, Len(ip2))
                          ELSE parseIPv6Loop(s3, ip2, ellipsis)

parseIPv6(s) ==
    LET lead == Len(s) >= 2 /\ s[1] = ":" /\ s[2] = ":"
        r == IF lead THEN parseIPv6Loop(Tail2(s, 2), <<>>, 0)
             ELSE parseIPv6Loop(s, <<>>, -1)
        i == Len(r.ip)
    IN  IF lead /\ Len(s) = 2 THEN Zeros(IPv6len)
        ELSE IF ~r.ok THEN NilIP
        ELSE IF i < IPv6len
        THEN IF r.ellipsis < 0 THEN NilIP
             ELSE SubSeq(r.ip, 1, r.ellipsis) \o Zeros(IPv6len - i)
                      \o SubSeq(r.ip, r.ellipsis + 1, i)
        ELSE IF r.ellipsis >= 0 THEN NilIP
        ELSE r.ip

RECURSIVE ParseIPFrom(_, _)
ParseIPFrom(s, i) ==
    IF i > Len(s) THEN NilIP
    ELSE IF s[i] = "." THEN parseIPv4(s)
    ELSE IF s[i] = ":" THEN parseIPv6(s)
    ELSE ParseIPFrom(s, i + 1)

ParseIP(s) == ParseIPFrom(s, 1)

\* IP.To4: the 4 bytes of an IPv4 address (4-byte or IPv4-in-IPv6 form), else nil.
To4(ip) ==
    IF Len(ip) = IPv4len THEN ip
    ELSE IF Len(ip) = IPv6len /\ SubSeq(ip, 1, 10) = Zeros(10)
            /\ ip[11] = 255 /\ ip[12] = 255
    THEN SubSeq(ip, 13, 16)
    ELSE NilIP

\* Go's copy(dst, src): min(len) elements are copied, the rest of dst is kept.
Copy(dst, src) == [i \in 1..Len(dst) |-> IF i <= Len(src) THEN src[i] ELSE dst[i]]

\* dns.Fqdn: the name with a trailing dot.
Fqdn(s) == IF Len(s) > 0 /\ s[Len(s)] = "." THEN s ELSE Append(s, ".")

(***************************************************************************)
(* Inputs the calls are made with.                                         *)
(***************************************************************************)
HostV4 == <<"1", "0", ".", "0", ".", "0", ".", "1">>
HostV6 == <<":", ":", "1">>
HostName == <<"a", ".", "i", "o">>
HostShort == <<"1", ".", "2", ".", "3">>
Hosts == {HostV4, HostV6, HostName, HostShort}

DnsV4 == <<"8", ".", "8", ".", "8", ".", "8">>
DnsV6 == <<"f", "e", "8", "0", ":", ":", "1">>
DnsMapped == <<":", ":", "f", "f", "f", "f", ":", "8", ".", "8", ".", "4", ".", "4">>
DnsName == <<"n", "s", ".", "i", "o">>
DnsEmpty == <<>>
DnsServers == {DnsV4, DnsV6, DnsMapped, DnsName, DnsEmpty}

\* DialConfig, the fields LookupIP reads.  BindToDeviceProvider is TRUE for a
\* non-nil provider.
Configs ==
    [BindToDeviceProvider : BOOLEAN,
     BindToDeviceDnsServer : DnsServers,
     ConnectTimeout : 0..MaxTimeout]

\* What the resolver at the other end of the socket does with the query.
Peers == {"answers", "garbage", "refuses", "silent"}

\* Answer sections of a well-formed response: records of type A carry an
\* address, other records do not count.
AddrA1 == <<93, 184, 216, 34>>
AddrA2 == <<10, 1, 2, 3>>
RR(t, a) == [rrtype |-> t, A |-> a]
Responses ==
    { <<>>,
      <<RR("A", AddrA1)>>,
      <<RR("CNAME", <<>>)>>,
      <<RR("A", AddrA1), RR("CNAME", <<>>), RR("A", AddrA2)>>,
      <<RR("A", AddrA2), RR("A", AddrA1)>> }

\* What net.LookupIP (the platform resolver) may hand back.
PlatformResults ==
    { [addrs |-> [isNil |-> FALSE, list |-> <<AddrA1>>], err |-> "nil"],
      [addrs |-> [isNil |-> FALSE, list |-> <<AddrA2, AddrA1>>], err |-> "nil"],
      [addrs |-> [isNil |-> TRUE, list |-> <<>>], err |-> "PlatformError"] }

Procs == 1..NumProcs
FDs == 1..MaxFd

NilAddrs == [isNil |-> TRUE, list |-> <<>>]
List(l) == [isNil |-> FALSE, list |-> l]

VARIABLES
    pc,             \* where each caller stands in LookupIP / bindLookupIP
    host,           \* argument host
    config,         \* argument config
    peer,           \* behaviour of the resolver during this call
    socketFd,       \* socketFd (0 before syscall.Socket succeeded)
    sockAddr,       \* sockAddr handed to syscall.Connect (<<>> before)
    file,           \* the os.File over socketFd: "nil", "open", "closed"
    connFd,         \* descriptor of conn, the dup made by net.FileConn (0: none)
    conn,           \* conn: "nil", "open", "closed"
    readDeadline,   \* <<>> (none) or <<t>>
    writeDeadline,  \* <<>> (none) or <<t>>
    deferred,       \* stack of deferred calls, last registered first
    response,       \* <<>> before dnsConn.ReadMsg succeeded, then <<response.Answer>>
    addrs,          \* result addrs
    err,            \* result err, by kind ("nil" for no error)
    ops,            \* the calls made on the OS and the libraries, in order
    fds,            \* descriptor table: the caller that opened it, 0 if closed
    now             \* the clock

callVars == <<host, config, peer>>
sockVars == <<socketFd, sockAddr, file, connFd, conn>>
dlVars == <<readDeadline, writeDeadline>>
retVars == <<addrs, err>>
vars == <<pc, host, config, peer, socketFd, sockAddr, file, connFd, conn,
          readDeadline, writeDeadline, deferred, response, addrs, err, ops, fds, now>>

Init ==
    /\ pc = [p \in Procs |-> "idle"]
    /\ host = [p \in Procs |-> <<>>]
    /\ config = [p \in Procs |-> [BindToDeviceProvider |-> FALSE,
                                  BindToDeviceDnsServer |-> <<>>,
                                  ConnectTimeout |-> 0]]
    /\ peer = [p \in Procs |-> "silent"]
    /\ socketFd = [p \in Procs |-> 0]
    /\ sockAddr = [p \in Procs |-> <<>>]
    /\ file = [p \in Procs |-> "nil"]
    /\ connFd = [p \in Procs |-> 0]
    /\ conn = [p \in Procs |-> "nil"]
    /\ readDeadline = [p \in Procs |-> <<>>]
    /\ writeDeadline = [p \in Procs |-> <<>>]
    /\ deferred = [p \in Procs |-> <<>>]
    /\ response = [p \in Procs |-> <<>>]
    /\ addrs = [p \in Procs |-> NilAddrs]
    /\ err = [p \in Procs |-> "nil"]
    /\ ops = [p \in Procs |-> <<>>]
    /\ fds = [fd \in FDs |-> 0]
    /\ now = 0

(***************************************************************************)
(* Helpers of the actions.                                                 *)
(***************************************************************************)
\* One entry of ops: the call, the descriptor it is made on (0: none), the
\* caller owning that descriptor when the call is made, its outcome and, for
\* the calls that depend on the clock, the time.
Op(name, fd, res, at) ==
    [op |-> name, fd |-> fd, owner |-> IF fd \in FDs THEN fds[fd] ELSE 0,
     res |-> res, at |-> at]

Log(p, e) == ops' = [ops EXCEPT ![p] = Append(@, e)]

FreeFds == {fd \in FDs : fds[fd] = 0}
\* The kernel hands out the lowest free descriptor number.
LowestFree == CHOOSE fd \in FreeFds : \A g \in FreeFds : fd <= g

\* Fail with the error lost: return nil, nil.
Fail_Swallowed(p, kind) ==
    /\ addrs' = [addrs EXCEPT ![p] = NilAddrs]
    /\ err' = [err EXCEPT ![p] = "nil"]
    /\ pc' = [pc EXCEPT ![p] = "defers"]

\* Fail without the deferred calls: the error is returned with nothing released.
Fail_NoCleanup(p, kind) ==
    /\ addrs' = [addrs EXCEPT ![p] = NilAddrs]
    /\ err' = [err EXCEPT ![p] = kind]
    /\ pc' = [pc EXCEPT ![p] = "done"]

\* return nil, ContextError(e): the deferred calls run next.
Fail(p, kind) ==
    /\ addrs' = [addrs EXCEPT ![p] = NilAddrs]
    /\ err' = [err EXCEPT ![p] = kind]
    /\ pc' = [pc EXCEPT ![p] = "defers"]

\* defer f(): f is pushed on the stack of deferred calls.
Defer(p, f) == deferred' = [deferred EXCEPT ![p] = <<f>> \o @]

(***************************************************************************)
(* LookupIP (lines 40-45): the call is made and dispatched on the config.  *)
(***************************************************************************)
\* The dispatch with the test of the provider lost: always the platform resolver.
UsesBoundPath_Never(cfg) == FALSE

\* The dispatch with the test of the provider lost: always the bound path.
UsesBoundPath_Always(cfg) == TRUE

UsesBoundPath(cfg) == cfg.BindToDeviceProvider

\* A call of LookupIP with its arguments drawn from hosts and configs, and
\* the resolver's behaviour during the call from peers.
LookupIPWith(p, hosts, configs, peers) ==
    /\ pc[p] \in {"idle", "done"}
    /\ now <= MaxTime
    /\ \E h \in hosts, cfg \in configs, pr \in peers :
        /\ host' = [host EXCEPT ![p] = h]
        /\ config' = [config EXCEPT ![p] = cfg]
        /\ peer' = [peer EXCEPT ![p] = pr]
        /\ pc' = [pc EXCEPT ![p] =
                    IF UsesBoundPath(cfg) THEN "bindLookupIP" ELSE "net.LookupIP"]
    /\ socketFd' = [socketFd EXCEPT ![p] = 0]
    /\ sockAddr' = [sockAddr EXCEPT ![p] = <<>>]
    /\ file' = [file EXCEPT ![p] = "nil"]
    /\ connFd' = [connFd EXCEPT ![p] = 0]
    /\ conn' = [conn EXCEPT ![p] = "nil"]
    /\ readDeadline' = [readDeadline EXCEPT ![p] = <<>>]
    /\ writeDeadline' = [writeDeadline EXCEPT ![p] = <<>>]
    /\ deferred' = [deferred EXCEPT ![p] = <<>>]
    /\ addrs' = [addrs EXCEPT ![p] = NilAddrs]
    /\ response' = [response EXCEPT ![p] = <<>>]
    /\ err' = [err EXCEPT ![p] = "nil"]
    /\ ops' = [ops EXCEPT ![p] = <<>>]
    /\ UNCHANGED <<fds, now>>

LookupIP(p) == LookupIPWith(p, Hosts, Configs, Peers)

\* net.LookupIP answers a literal IP address with that address, without a
\* query; any other host with whatever the platform's resolution yields.
PlatformAnswers(h) ==
    IF ParseIP(h) # NilIP
    THEN {[addrs |-> List(<<ParseIP(h)>>), err |-> "nil"]}
    ELSE PlatformResults

\* return net.LookupIP(host) (line 44).
PlatformLookup(p) ==
    /\ pc[p] = "net.LookupIP"
    /\ \E r \in PlatformAnswers(host[p]) :
        /\ addrs' = [addrs EXCEPT ![p] = r.addrs]
        /\ err' = [err EXCEPT ![p] = r.err]
        /\ Log(p, Op("net.LookupIP", 0, r, 0))
    /\ pc' = [pc EXCEPT ![p] = "done"]
    /\ UNCHANGED <<callVars, response, sockVars, dlVars, deferred, fds, now>>

(***************************************************************************)
(* bindLookupIP (lines 51-119), statement by statement.                    *)
(***************************************************************************)
\* The echo of an IP address lost: every host is looked up.
HostIsIP_Never(ipAddr) == FALSE

\* Lines 54-57: a host that is an IP address is echoed back.
HostIsIP(ipAddr) == ipAddr # NilIP

ParseHost(p) ==
    /\ pc[p] = "bindLookupIP"
    /\ LET ipAddr == ParseIP(host[p])
       IN  IF HostIsIP(ipAddr)
           THEN /\ addrs' = [addrs EXCEPT ![p] = List(<<ipAddr>>)]
                /\ pc' = [pc EXCEPT ![p] = "done"]
           ELSE /\ pc' = [pc EXCEPT ![p] = "socket"]
                /\ UNCHANGED addrs
    /\ UNCHANGED <<callVars, response, sockVars, dlVars, deferred, err, ops, fds, now>>

\* Lines 59-63: syscall.Socket; on success its Close is deferred.
Socket(p) ==
    /\ pc[p] = "socket"
    /\ \/ /\ FreeFds # {}
          /\ LET fd == LowestFree
             IN  /\ socketFd' = [socketFd EXCEPT ![p] = fd]
                 /\ fds' = [fds EXCEPT ![fd] = p]
                 /\ Log(p, Op("syscall.Socket", fd, "ok", 0))
          /\ Defer(p, "syscall.Close")
          /\ pc' = [pc EXCEPT ![p] = "bind"]
          /\ UNCHANGED <<addrs, err>>
       \/ /\ Log(p, Op("syscall.Socket", 0, "error", 0))
          /\ addrs' = [addrs EXCEPT ![p] = NilAddrs]
          /\ err' = [err EXCEPT ![p] = "SocketCreateError"]
          /\ pc' = [pc EXCEPT ![p] = "done"]
          /\ UNCHANGED <<socketFd, fds, deferred>>
    /\ UNCHANGED <<callVars, response, sockAddr, file, connFd, conn, dlVars, now>>

\* BindToDevice with its result checked: a failed binding aborts the call.
BindToDevice_Checked(p) ==
    /\ pc[p] = "bind"
    /\ \/ /\ Log(p, Op("BindToDevice", socketFd[p], "ok", 0))
          /\ pc' = [pc EXCEPT ![p] = "parseDns"]
          /\ UNCHANGED retVars
       \/ /\ Log(p, Op("BindToDevice", socketFd[p], "error", 0))
          /\ Fail(p, "BindToDeviceError")
    /\ UNCHANGED <<callVars, response, sockVars, dlVars, deferred, fds, now>>

\* BindToDevice never called: the socket goes unbound to the next statement.
BindToDevice_Skipped(p) ==
    /\ pc[p] = "bind"
    /\ pc' = [pc EXCEPT ![p] = "parseDns"]
    /\ UNCHANGED <<callVars, response, sockVars, dlVars, deferred, retVars, ops, fds, now>>

\* Line 66: BindToDevice is called on the socket; its result is dropped.
BindToDevice(p) ==
    /\ pc[p] = "bind"
    /\ \E r \in {"ok", "error"} : Log(p, Op("BindToDevice", socketFd[p], r, 0))
    /\ pc' = [pc EXCEPT ![p] = "parseDns"]
    /\ UNCHANGED <<callVars, response, sockVars, dlVars, deferred, retVars, fds, now>>

\* The check of the parsed resolver address lost.
ResolverRejected_Never(ipAddr) == FALSE

\* Lines 69-72: config.BindToDeviceDnsServer must parse as an IP address.
ResolverRejected(ipAddr) == ipAddr = NilIP

ParseResolver(p) ==
    /\ pc[p] = "parseDns"
    /\ IF ResolverRejected(ParseIP(config[p].BindToDeviceDnsServer))
       THEN Fail(p, "InvalidResolverAddressError")
       ELSE /\ pc' = [pc EXCEPT ![p] = "connect"]
            /\ UNCHANGED retVars
    /\ UNCHANGED <<callVars, response, sockVars, dlVars, deferred, ops, fds, now>>

\* Lines 75-77: the IPv4 socket address built from the parsed resolver address.
SockaddrInet4(ipAddr) ==
    [Addr |-> Copy(Zeros(IPv4len), To4(ipAddr)), Port |-> DNS_PORT]

\* Lines 75-82: syscall.Connect.  It fails with EBADF on a closed descriptor.
Connect(p) ==
    /\ pc[p] = "connect"
    /\ LET sa == SockaddrInet4(ParseIP(config[p].BindToDeviceDnsServer))
       IN  /\ sockAddr' = [sockAddr EXCEPT ![p] = sa]
           /\ \/ /\ fds[socketFd[p]] # 0
                 /\ Log(p, Op("syscall.Connect", socketFd[p], "ok", 0))
                 /\ pc' = [pc EXCEPT ![p] = "newFile"]
                 /\ UNCHANGED retVars
              \/ /\ Log(p, Op("syscall.Connect", socketFd[p], "error", 0))
                 /\ Fail(p, "ConnectError")
    /\ UNCHANGED <<callVars, response, socketFd, file, connFd, conn, dlVars, deferred, fds, now>>

\* Lines 85-86: os.NewFile over socketFd; file.Close is deferred.
NewFile(p) ==
    /\ pc[p] = "newFile"
    /\ file' = [file EXCEPT ![p] = "open"]
    /\ Log(p, Op("os.NewFile", socketFd[p], "ok", 0))
    /\ Defer(p, "file.Close")
    /\ pc' = [pc EXCEPT ![p] = "fileConn"]
    /\ UNCHANGED <<callVars, response, socketFd, sockAddr, connFd, conn, dlVars, retVars, fds, now>>

\* Lines 87-90: net.FileConn duplicates the file's descriptor into conn.
FileConn(p) ==
    /\ pc[p] = "fileConn"
    /\ \/ /\ FreeFds # {}
          /\ fds[socketFd[p]] # 0
          /\ LET fd == LowestFree
             IN  /\ connFd' = [connFd EXCEPT ![p] = fd]
                 /\ fds' = [fds EXCEPT ![fd] = p]
                 /\ Log(p, Op("net.FileConn", fd, "ok", 0))
          /\ conn' = [conn EXCEPT ![p] = "open"]
          /\ pc' = [pc EXCEPT ![p] = "deadlines"]
          /\ UNCHANGED retVars
       \/ /\ Log(p, Op("net.FileConn", 0, "error", 0))
          /\ Fail(p, "FileConnError")
          /\ UNCHANGED <<connFd, conn, fds>>
    /\ UNCHANGED <<callVars, response, socketFd, sockAddr, file, dlVars, deferred, now>>

\* The test of ConnectTimeout lost: deadlines are set for a zero timeout too.
HasTimeout_Always(timeout) == TRUE

\* The test of line 93 never taken: no deadline is ever set.
HasTimeout_Never(timeout) == FALSE

\* The deadline without the timeout added: time.Now().
Deadline_Now(t, timeout) == t

\* Line 93: the timeouts are set only for a non-zero ConnectTimeout.
HasTimeout(timeout) == timeout # 0

\* Lines 94, 95: time.Now().Add(config.ConnectTimeout).
Deadline(t, timeout) == t + timeout

\* Lines 93-94: conn.SetReadDeadline.
SetReadDeadline(p) ==
    /\ pc[p] = "deadlines"
    /\ IF HasTimeout(config[p].ConnectTimeout)
       THEN /\ readDeadline' = [readDeadline EXCEPT ![p] =
                                  <<Deadline(now, config[p].ConnectTimeout)>>]
            /\ Log(p, Op("SetReadDeadline", connFd[p], "ok", now))
            /\ pc' = [pc EXCEPT ![p] = "setWriteDeadline"]
       ELSE /\ pc' = [pc EXCEPT ![p] = "write"]
            /\ UNCHANGED <<readDeadline, ops>>
    /\ UNCHANGED <<callVars, response, sockVars, writeDeadline, deferred, retVars, fds, now>>

\* Line 95: conn.SetWriteDeadline.
SetWriteDeadline(p) ==
    /\ pc[p] = "setWriteDeadline"
    /\ writeDeadline' = [writeDeadline EXCEPT ![p] =
                           <<Deadline(now, config[p].ConnectTimeout)>>]
    /\ Log(p, Op("SetWriteDeadline", connFd[p], "ok", now))
    /\ pc' = [pc EXCEPT ![p] = "write"]
    /\ UNCHANGED <<callVars, response, sockVars, readDeadline, deferred, retVars, fds, now>>

\* A deadline that has been reached: the pending I/O is aborted.
Expired(deadline) == deadline # <<>> /\ now >= deadline[1]

\* Lines 102-104: the query.
Query(h) == [name |-> Fqdn(h), qtype |-> "A", RecursionDesired |-> TRUE]

\* Lines 100-105: dnsConn over conn, its Close deferred, the query written.
\* The result of WriteMsg is dropped: whatever it is, the response is read.
WriteMsg(p) ==
    /\ pc[p] = "write"
    /\ Defer(p, "dnsConn.Close")
    /\ IF Expired(writeDeadline[p])
       THEN Log(p, Op("WriteMsg", connFd[p], "timeout", now))
       ELSE \E r \in {"ok", "error"} : Log(p, Op("WriteMsg", connFd[p], r, now))
    /\ pc' = [pc EXCEPT ![p] = "read"]
    /\ UNCHANGED <<callVars, response, sockVars, dlVars, retVars, fds, now>>

\* The answer loop putting each address in front of the list.
RECURSIVE AddressesOf_Reversed(_)
AddressesOf_Reversed(answer) ==
    IF answer = <<>> THEN <<>>
    ELSE AddressesOf_Reversed(Tail(answer))
             \o (IF Head(answer).rrtype = "A" THEN <<Head(answer).A>> ELSE <<>>)

\* The answer loop without the test of the record type.
RECURSIVE AddressesOf_Unfiltered(_)
AddressesOf_Unfiltered(answer) ==
    IF answer = <<>> THEN <<>>
    ELSE <<Head(answer).A>> \o AddressesOf_Unfiltered(Tail(answer))

\* Lines 112-117: the addresses of the A records of the answer, in order.
RECURSIVE AddressesOf(_)
AddressesOf(answer) ==
    IF answer = <<>> THEN <<>>
    ELSE (IF Head(answer).rrtype = "A" THEN <<Head(answer).A>> ELSE <<>>)
             \o AddressesOf(Tail(answer))

\* Lines 108-118: dnsConn.ReadMsg and the processing of the response.  The
\* read blocks until the resolver answers or the read deadline is reached;
\* it is an error at once when the resolver refuses the query, and it can
\* only be an error or another socket's data when conn's descriptor has been
\* closed under it.
ReadMsg(p) ==
    /\ pc[p] = "read"
    /\ IF Expired(readDeadline[p])
       THEN /\ Log(p, Op("ReadMsg", connFd[p], "timeout", now))
            /\ Fail(p, "QueryReadError")
            /\ UNCHANGED response
       ELSE \/ /\ peer[p] = "refuses" \/ fds[connFd[p]] = 0
               /\ Log(p, Op("ReadMsg", connFd[p], "error", now))
               /\ Fail(p, "QueryReadError")
               /\ UNCHANGED response
            \/ /\ peer[p] = "garbage"
               /\ Log(p, Op("ReadMsg", connFd[p], "malformed", now))
               /\ Fail(p, "MalformedResponseError")
               /\ UNCHANGED response
            \/ /\ peer[p] = "answers"
               /\ \E answer \in Responses :
                     /\ response' = [response EXCEPT ![p] = <<answer>>]
                     /\ addrs' = [addrs EXCEPT ![p] = List(AddressesOf(answer))]
               /\ Log(p, Op("ReadMsg", connFd[p], "ok", now))
               /\ err' = [err EXCEPT ![p] = "nil"]
               /\ pc' = [pc EXCEPT ![p] = "defers"]
    /\ UNCHANGED <<callVars, sockVars, dlVars, deferred, fds, now>>

(***************************************************************************)
(* The deferred calls, run last registered first when the function returns.*)
(***************************************************************************)
Pop(p) == deferred' = [deferred EXCEPT ![p] = Tail(@)]

\* Line 101: dnsConn.Close closes conn and its descriptor.
CloseDnsConn(p) ==
    /\ pc[p] = "defers"
    /\ deferred[p] # <<>> /\ Head(deferred[p]) = "dnsConn.Close"
    /\ Pop(p)
    /\ Log(p, Op("dnsConn.Close", connFd[p], "ok", 0))
    /\ conn' = [conn EXCEPT ![p] = "closed"]
    /\ fds' = [fds EXCEPT ![connFd[p]] = 0]
    /\ UNCHANGED <<pc, callVars, response, socketFd, sockAddr, file, connFd, dlVars, retVars, now>>

\* close(2) on descriptor number fd: EBADF when it is not open.
CloseResult(fd) == IF fds[fd] = 0 THEN "EBADF" ELSE "ok"

\* Line 86: file.Close closes the descriptor the file was made over, socketFd.
CloseFile(p) ==
    /\ pc[p] = "defers"
    /\ deferred[p] # <<>> /\ Head(deferred[p]) = "file.Close"
    /\ Pop(p)
    /\ Log(p, Op("file.Close", socketFd[p], CloseResult(socketFd[p]), 0))
    /\ file' = [file EXCEPT ![p] = "closed"]
    /\ fds' = [fds EXCEPT ![socketFd[p]] = 0]
    /\ UNCHANGED <<pc, callVars, response, socketFd, sockAddr, connFd, conn, dlVars, retVars, now>>

\* Line 63: syscall.Close(socketFd), whatever that number now names.
CloseSocket(p) ==
    /\ pc[p] = "defers"
    /\ deferred[p] # <<>> /\ Head(deferred[p]) = "syscall.Close"
    /\ Pop(p)
    /\ Log(p, Op("syscall.Close", socketFd[p], CloseResult(socketFd[p]), 0))
    /\ fds' = [fds EXCEPT ![socketFd[p]] = 0]
    /\ UNCHANGED <<pc, callVars, response, sockVars, dlVars, retVars, now>>

\* All deferred calls have run: the call has returned.
Return(p) ==
    /\ pc[p] = "defers"
    /\ deferred[p] = <<>>
    /\ pc' = [pc EXCEPT ![p] = "done"]
    /\ UNCHANGED <<callVars, response, sockVars, dlVars, deferred, retVars, ops, fds, now>>

(***************************************************************************)
(* The clock.  It runs freely up to MaxTime, and beyond it only towards a  *)
(* deadline some caller is blocked on; calls begin up to MaxTime.          *)
(***************************************************************************)
Waiting(p) ==
    \/ pc[p] = "read" /\ readDeadline[p] # <<>> /\ now < readDeadline[p][1]
    \/ pc[p] = "write" /\ writeDeadline[p] # <<>> /\ now < writeDeadline[p][1]

Tick ==
    /\ now < MaxTime \/ \E p \in Procs : Waiting(p)
    /\ now' = now + 1
    /\ UNCHANGED <<pc, callVars, response, sockVars, dlVars, deferred, retVars, ops, fds>>

(***************************************************************************)
(* Spec: one caller at a time, calls one after the other.                  *)
(***************************************************************************)
Callers == {1}

Step(p) ==
    \/ LookupIP(p)
    \/ PlatformLookup(p)
    \/ ParseHost(p)
    \/ Socket(p)
    \/ BindToDevice(p)
    \/ ParseResolver(p)
    \/ Connect(p)
    \/ NewFile(p)
    \/ FileConn(p)
    \/ SetReadDeadline(p)
    \/ SetWriteDeadline(p)
    \/ WriteMsg(p)
    \/ ReadMsg(p)
    \/ CloseDnsConn(p)
    \/ CloseFile(p)
    \/ CloseSocket(p)
    \/ Return(p)

Next == (\E p \in Callers : Step(p)) \/ Tick

Spec == Init /\ [][Next]_vars

(***************************************************************************)
(* SpecConc: every caller makes one call, all of them on the bound path    *)
(* and interleaved statement by statement over the one descriptor table.   *)
(* The calls set no timeout, so that the clock plays no part.              *)
(***************************************************************************)
ConcHosts == {HostName}
ConcConfigs ==
    [BindToDeviceProvider : {TRUE},
     BindToDeviceDnsServer : {DnsV4},
     ConnectTimeout : {0}]
ConcPeers == {"answers", "refuses"}

ConcLookupIP(p) ==
    /\ pc[p] = "idle"
    /\ LookupIPWith(p, ConcHosts, ConcConfigs, ConcPeers)

ConcStep(p) ==
    \/ ConcLookupIP(p)
    \/ ParseHost(p)
    \/ Socket(p)
    \/ BindToDevice(p)
    \/ ParseResolver(p)
    \/ Connect(p)
    \/ NewFile(p)
    \/ FileConn(p)
    \/ SetReadDeadline(p)
    \/ WriteMsg(p)
    \/ ReadMsg(p)
    \/ CloseDnsConn(p)
    \/ CloseFile(p)
    \/ CloseSocket(p)
    \/ Return(p)

NextConc == \E p \in Procs : ConcStep(p)

SpecConc == Init /\ [][NextConc]_vars

(***************************************************************************)
(* SpecLive: one caller on the bound path whose goroutine keeps running:   *)
(* a call that has begun takes its next statement whenever one can be      *)
(* taken, and time passes.  Nothing obliges the caller to begin a call.    *)
(***************************************************************************)
LiveHosts == {HostName}
LiveConfigs ==
    [BindToDeviceProvider : {TRUE},
     BindToDeviceDnsServer : {DnsV4, DnsEmpty},
     ConnectTimeout : 0..MaxTimeout]

LiveLookupIP(p) ==
    /\ p \in Callers
    /\ LookupIPWith(p, LiveHosts, LiveConfigs, Peers)

\* The statements of a call that has begun.
Advance(p) ==
    \/ ParseHost(p)
    \/ Socket(p)
    \/ BindToDevice(p)
    \/ ParseResolver(p)
    \/ Connect(p)
    \/ NewFile(p)
    \/ FileConn(p)
    \/ SetReadDeadline(p)
    \/ SetWriteDeadline(p)
    \/ WriteMsg(p)
    \/ ReadMsg(p)
    \/ CloseDnsConn(p)
    \/ CloseFile(p)
    \/ CloseSocket(p)
    \/ Return(p)

NextLive == (\E p \in Callers : LiveLookupIP(p) \/ Advance(p)) \/ Tick

SpecLive ==
    /\ Init
    /\ [][NextLive]_vars
    /\ \A p \in Callers : WF_vars(Advance(p))
    /\ WF_vars(Tick)

(***************************************************************************)
(* Vocabulary of the properties.                                           *)
(***************************************************************************)
Idx(p) == DOMAIN ops[p]
Has(p, name) == \E i \in Idx(p) : ops[p][i].op = name
BoundPath(p) == pc[p] # "idle" /\ config[p].BindToDeviceProvider
UnboundPath(p) == pc[p] # "idle" /\ ~config[p].BindToDeviceProvider
Returned(p) == pc[p] = "done"
LiteralHost(p) == ParseIP(host[p]) # NilIP
CloseOps == {"dnsConn.Close", "file.Close", "syscall.Close"}
SocketOps == {"syscall.Socket", "BindToDevice", "syscall.Connect", "os.NewFile",
              "net.FileConn", "SetReadDeadline", "SetWriteDeadline", "WriteMsg",
              "ReadMsg"} \cup CloseOps
ClosesOf(p, fd) == {i \in Idx(p) : ops[p][i].op \in CloseOps /\ ops[p][i].fd = fd}
Acquired(p) == {ops[p][i].fd : i \in {j \in Idx(p) :
                    ops[p][j].op \in {"syscall.Socket", "net.FileConn"}
                    /\ ops[p][j].fd # 0}}
HasColon(s) == \E i \in 1..Len(s) : s[i] = ":"
IPv6Literal(s) == ParseIP(s) # NilIP /\ HasColon(s)
NonAddress(s) == ParseIP(s) = NilIP

\* C1: every descriptor a call acquires is released exactly once: no
\* descriptor number is closed twice by the same call, and once the call has
\* returned each acquired descriptor has been closed once.
C1_ReleasedExactlyOnce ==
    \A p \in Procs : \A fd \in FDs :
        /\ Cardinality(ClosesOf(p, fd)) <= 1
        /\ (Returned(p) /\ fd \in Acquired(p)) => Cardinality(ClosesOf(p, fd)) = 1

\* C2: after a bound-path call has returned, nothing it opened is open: the
\* raw socket, the file over it and the connection are all closed.
C2_NothingLeftOpen ==
    \A p \in Procs :
        (Returned(p) /\ BoundPath(p)) =>
            /\ \A fd \in FDs : fds[fd] # p
            /\ socketFd[p] # 0 => fds[socketFd[p]] = 0
            /\ connFd[p] # 0 => fds[connFd[p]] = 0
            /\ file[p] # "open"
            /\ conn[p] # "open"

C2_Witness ==
    \E p \in Procs :
        /\ Returned(p) /\ BoundPath(p)
        /\ file[p] = "closed" /\ conn[p] = "closed"
        /\ socketFd[p] # 0 /\ connFd[p] # 0
        /\ err[p] = "MalformedResponseError"

\* C3: a failed write of the query (an error or the write deadline) makes the
\* call return a QueryWriteError, and no response is read.
C3_WriteFailureSurfaces ==
    \A p \in Procs :
        (\E i \in Idx(p) : ops[p][i].op = "WriteMsg" /\ ops[p][i].res # "ok") =>
            /\ ~Has(p, "ReadMsg")
            /\ Returned(p) => err[p] = "QueryWriteError"

\* C4: on the bound path with a non-literal host, a resolver address that is
\* an IPv6 literal or no address at all is rejected with
\* InvalidResolverAddressError, and the socket is never connected.
C4_IPv6OrNonAddressRejected ==
    \A p \in Procs :
        LET dns == config[p].BindToDeviceDnsServer
        IN  (BoundPath(p) /\ ~LiteralHost(p) /\ (IPv6Literal(dns) \/ NonAddress(dns))) =>
                /\ ~Has(p, "syscall.Connect")
                /\ (Returned(p) /\ Has(p, "BindToDevice")) =>
                       err[p] = "InvalidResolverAddressError"

\* C5: on the bound path a host that is a literal IPv4 or IPv6 address is
\* returned as the one-element list of that address with no error, and the
\* call creates no socket, never calls BindToDevice, connects, writes or reads.
C5_LiteralHostEchoed ==
    \A p \in Procs :
        (BoundPath(p) /\ LiteralHost(p)) =>
            /\ \A i \in Idx(p) : ops[p][i].op \notin SocketOps
            /\ \A fd \in FDs : fds[fd] # p
            /\ Returned(p) => /\ addrs[p] = List(<<ParseIP(host[p])>>)
                              /\ err[p] = "nil"

C5_Witness ==
    \E p \in Procs :
        /\ Returned(p) /\ BoundPath(p)
        /\ host[p] = HostV6
        /\ addrs[p] = List(<<Zeros(IPv6len - 1) \o <<1>>>>)
        /\ err[p] = "nil" /\ ops[p] = <<>>

\* C6 as stated: without a device-binding capability too, a literal host is
\* returned as [host] with no error and the platform resolver is not called.
C6_ShortcutOnEveryPath ==
    \A p \in Procs :
        (UnboundPath(p) /\ LiteralHost(p) /\ Returned(p)) =>
            /\ ~Has(p, "net.LookupIP")
            /\ addrs[p] = List(<<ParseIP(host[p])>>)
            /\ err[p] = "nil"

\* C6 as amended: the literal-IP shortcut is taken on the bound path only.
\* With a device-binding capability a literal host is returned as [host]
\* without the platform resolver being called; without one the call is
\* delegated to the platform resolver, exactly once and with nothing else
\* done, for a literal host as for any other, and its error is what is returned.
C6_ShortcutOnBoundPathOnly ==
    \A p \in Procs :
        /\ (BoundPath(p) /\ LiteralHost(p) /\ Returned(p)) =>
               /\ ~Has(p, "net.LookupIP")
               /\ addrs[p] = List(<<ParseIP(host[p])>>)
               /\ err[p] = "nil"
        /\ (UnboundPath(p) /\ Returned(p)) =>
               /\ Len(ops[p]) = 1
               /\ ops[p][1].op = "net.LookupIP"
               /\ addrs[p] = ops[p][1].res.addrs
               /\ err[p] = ops[p][1].res.err

C6_Witness ==
    \E p \in Procs :
        /\ UnboundPath(p) /\ Returned(p)
        /\ host[p] = HostV4
        /\ Has(p, "net.LookupIP")
        /\ addrs[p] = List(<<IPv4(<<10, 0, 0, 1>>)>>)
        /\ err[p] = "nil"

\* C7: a failing step is the last step of the call: after a failed socket
\* creation, resolver-address parse, connect, wrap, write or read nothing but
\* the deferred releases is done, and the call returns an error and nil.
FailedStep(e) ==
    /\ e.op \in {"syscall.Socket", "syscall.Connect", "net.FileConn", "WriteMsg", "ReadMsg"}
    /\ e.res # "ok"

C7_EveryErrorTerminal ==
    \A p \in Procs :
        /\ \A i \in Idx(p) :
               (ops[p][i].op # "net.LookupIP" /\ FailedStep(ops[p][i])) =>
                   /\ \A j \in Idx(p) : j > i => ops[p][j].op \in CloseOps
                   /\ Returned(p) => (err[p] # "nil" /\ addrs[p] = NilAddrs)
        /\ (BoundPath(p) /\ ~LiteralHost(p) /\ Has(p, "BindToDevice")
              /\ NonAddress(config[p].BindToDeviceDnsServer)) =>
               /\ \A j \in Idx(p) :
                      ops[p][j].op \in {"syscall.Socket", "BindToDevice"} \cup CloseOps
               /\ Returned(p) => (err[p] # "nil" /\ addrs[p] = NilAddrs)

\* C8: with a non-literal host on the bound path and a resolver address that
\* is no IP literal, the call never connects, writes or reads, and it fails
\* with InvalidResolverAddressError (the socket it validates the address for
\* exists; a call whose socket could not be created has failed before, with
\* the socket-creation error).
C8_InvalidResolverBeforeConnect ==
    \A p \in Procs :
        (BoundPath(p) /\ ~LiteralHost(p)
           /\ NonAddress(config[p].BindToDeviceDnsServer)) =>
            /\ \A i \in Idx(p) :
                   ops[p][i].op \notin {"syscall.Connect", "WriteMsg", "ReadMsg"}
            /\ sockAddr[p] = <<>>
            /\ Returned(p) =>
                   /\ addrs[p] = NilAddrs
                   /\ err[p] = IF socketFd[p] # 0 THEN "InvalidResolverAddressError"
                               ELSE "SocketCreateError"

C8_Witness ==
    \E p \in Procs :
        /\ BoundPath(p) /\ Returned(p)
        /\ host[p] = HostName
        /\ config[p].BindToDeviceDnsServer = DnsName
        /\ err[p] = "InvalidResolverAddressError"
        /\ Has(p, "BindToDevice") /\ Has(p, "syscall.Close")

\* C9: with a non-zero timeout T and a connection whose peer never responds,
\* the read of the response ends only by the deadline, at or after T has
\* passed since the read deadline was set, and the call fails with
\* QueryReadError.
C9_SilentPeerTimesOut ==
    \A p \in Procs :
        LET T == config[p].ConnectTimeout
        IN  (BoundPath(p) /\ T # 0 /\ peer[p] = "silent" /\ conn[p] # "nil") =>
                /\ \A j \in Idx(p) : ops[p][j].op = "ReadMsg" =>
                       /\ ops[p][j].res = "timeout"
                       /\ \E i \in Idx(p) :
                              /\ i < j
                              /\ ops[p][i].op = "SetReadDeadline"
                              /\ ops[p][j].at >= ops[p][i].at + T
                /\ Returned(p) => (Has(p, "ReadMsg") /\ err[p] = "QueryReadError")
                /\ ~Has(p, "ReadMsg") => err[p] = "nil"

C9_Witness ==
    \E p \in Procs :
        /\ BoundPath(p) /\ Returned(p)
        /\ config[p].ConnectTimeout = MaxTimeout
        /\ peer[p] = "silent"
        /\ err[p] = "QueryReadError"
        /\ \E j \in Idx(p) : ops[p][j].op = "ReadMsg" /\ ops[p][j].res = "timeout"

\* C10: with a non-zero timeout the read deadline and the write deadline are
\* both set on the connection before the query is written; with a zero
\* timeout no deadline is ever set.
C10_DeadlinesBeforeQuery ==
    \A p \in Procs :
        LET T == config[p].ConnectTimeout
        IN  /\ (BoundPath(p) /\ T # 0) =>
                   \A k \in Idx(p) : ops[p][k].op = "WriteMsg" =>
                       /\ \E i \in 1..(k - 1) :
                              ops[p][i].op = "SetReadDeadline" /\ ops[p][i].fd = connFd[p]
                       /\ \E j \in 1..(k - 1) :
                              ops[p][j].op = "SetWriteDeadline" /\ ops[p][j].fd = connFd[p]
                       /\ readDeadline[p] # <<>> /\ writeDeadline[p] # <<>>
            /\ (BoundPath(p) /\ T = 0) =>
                   /\ readDeadline[p] = <<>> /\ writeDeadline[p] = <<>>
                   /\ ~Has(p, "SetReadDeadline") /\ ~Has(p, "SetWriteDeadline")

C10_Witness ==
    \E p \in Procs :
        /\ BoundPath(p) /\ config[p].ConnectTimeout # 0
        /\ Has(p, "WriteMsg")
        /\ readDeadline[p] # <<>> /\ writeDeadline[p] # <<>>

\* C11: a failed binding does not abort the call.  Whatever BindToDevice
\* returned, the call goes on to the resolver address, the connect and the
\* query, and the error it returns is one of the later steps', never the
\* binding's.
LaterErrors ==
    {"InvalidResolverAddressError", "ConnectError", "FileConnError",
     "QueryReadError", "MalformedResponseError"}

C11_BindingFailureIgnored ==
    \A p \in Procs :
        (BoundPath(p) /\ Has(p, "BindToDevice")) =>
            LET dns == config[p].BindToDeviceDnsServer
            IN  /\ err[p] \in LaterErrors \cup {"nil"}
                /\ err[p] = "InvalidResolverAddressError" <=>
                       (NonAddress(dns) /\ pc[p] \in {"defers", "done"})
                /\ ~NonAddress(dns) =>
                       pc[p] \in {"parseDns", "connect"} \/ Has(p, "syscall.Connect")
                /\ err[p] = "ConnectError" =>
                       \E i \in Idx(p) : ops[p][i].op = "syscall.Connect"
                                         /\ ops[p][i].res = "error"
                /\ (Returned(p) /\ conn[p] # "nil") =>
                       Has(p, "WriteMsg") /\ Has(p, "ReadMsg")

C11_Witness ==
    \E p \in Procs :
        /\ BoundPath(p) /\ Returned(p)
        /\ \E i \in Idx(p) : ops[p][i].op = "BindToDevice" /\ ops[p][i].res = "error"
        /\ Has(p, "syscall.Connect") /\ Has(p, "WriteMsg")
        /\ err[p] = "nil"
        /\ addrs[p] = List(<<AddrA1>>)

\* C12: what a call returns after a well-formed response is the addresses of
\* the answer's A records, in the order of the answer; other records add
\* nothing.
IsARecord(rr) == rr.rrtype = "A"
ARecordAddresses(answer) ==
    LET a == SelectSeq(answer, IsARecord)
    IN  [i \in 1..Len(a) |-> a[i].A]

C12_ARecordsInOrder ==
    \A p \in Procs :
        (BoundPath(p) /\ response[p] # <<>>) =>
            /\ addrs[p].isNil = FALSE
            /\ Len(addrs[p].list) = Len(ARecordAddresses(response[p][1]))
            /\ \A i \in 1..Len(addrs[p].list) :
                   addrs[p].list[i] = ARecordAddresses(response[p][1])[i]

C12_Witness ==
    \E p \in Procs :
        /\ BoundPath(p) /\ Returned(p)
        /\ response[p] = <<(<<RR("A", AddrA1), RR("CNAME", <<>>), RR("A", AddrA2)>>)>>
        /\ addrs[p] = List(<<AddrA1, AddrA2>>)

\* C13: a response without any A record (an empty answer, or other records
\* only) makes the call return an empty list, not nil, and no error.
C13_NoARecordsEmptyList ==
    \A p \in Procs :
        (BoundPath(p) /\ response[p] # <<>>
           /\ \A i \in 1..Len(response[p][1]) : ~IsARecord(response[p][1][i])) =>
            /\ addrs[p] = List(<<>>)
            /\ err[p] = "nil"

C13_Witness ==
    \E p \in Procs :
        /\ BoundPath(p) /\ Returned(p)
        /\ response[p] = <<(<<RR("CNAME", <<>>)>>)>>
        /\ addrs[p] = List(<<>>)
        /\ err[p] = "nil"

\* C14: a malformed response makes the call fail with
\* MalformedResponseError and return no addresses; only the deferred
\* releases follow the read.
C14_MalformedResponseFails ==
    \A p \in Procs :
        BoundPath(p) =>
            \A i \in Idx(p) :
                (ops[p][i].op = "ReadMsg" /\ ops[p][i].res = "malformed") =>
                    /\ err[p] = "MalformedResponseError"
                    /\ addrs[p] = NilAddrs
                    /\ response[p] = <<>>
                    /\ \A j \in Idx(p) : j > i => ops[p][j].op \in CloseOps

C14_Witness ==
    \E p \in Procs :
        /\ BoundPath(p) /\ Returned(p)
        /\ peer[p] = "garbage"
        /\ \E i \in Idx(p) : ops[p][i].op = "ReadMsg" /\ ops[p][i].res = "malformed"
        /\ addrs[p] = NilAddrs
        /\ err[p] = "MalformedResponseError"

\* C15: the call is dispatched on the configuration alone.  Without a
\* device-binding capability it is the platform resolver's call and nothing
\* else, no socket is made, and its result and error are returned unchanged;
\* with one, the platform resolver is never called.
C15_DispatchOnConfig ==
    \A p \in Procs :
        /\ UnboundPath(p) =>
               /\ pc[p] \in {"net.LookupIP", "done"}
               /\ \A i \in Idx(p) : ops[p][i].op = "net.LookupIP"
               /\ socketFd[p] = 0 /\ connFd[p] = 0
               /\ \A fd \in FDs : fds[fd] # p
               /\ Returned(p) => /\ Len(ops[p]) = 1
                                 /\ ops[p][1].res \in PlatformAnswers(host[p])
                                 /\ addrs[p] = ops[p][1].res.addrs
                                 /\ err[p] = ops[p][1].res.err
        /\ BoundPath(p) =>
               /\ pc[p] # "net.LookupIP"
               /\ ~Has(p, "net.LookupIP")
               /\ (Returned(p) /\ ~LiteralHost(p)) => Has(p, "syscall.Socket")

C15_Witness ==
    \E p \in Procs :
        /\ UnboundPath(p) /\ Returned(p)
        /\ host[p] = HostName
        /\ Has(p, "net.LookupIP")
        /\ addrs[p] = List(<<AddrA2, AddrA1>>)
        /\ err[p] = "nil"

\* C16: a bound-path call with a non-literal host is one pass through
\* Created, SocketBound, Connected, QuerySent, ResponseReceived, Closed: the
\* steps come in that order, socket creation, binding, connect, write and
\* read happen at most once each, nothing follows the releases, and a step
\* that fails is followed by the releases only.
StateOf(name) ==
    CASE name = "syscall.Socket" -> 1
      [] name = "BindToDevice" -> 2
      [] name \in {"syscall.Connect", "os.NewFile", "net.FileConn",
                   "SetReadDeadline", "SetWriteDeadline"} -> 3
      [] name = "WriteMsg" -> 4
      [] name = "ReadMsg" -> 5
      [] name \in CloseOps -> 6

Times(p, name) == Cardinality({i \in Idx(p) : ops[p][i].op = name})

SinglePass(p) ==
    /\ \A i, j \in Idx(p) : i < j => StateOf(ops[p][i].op) <= StateOf(ops[p][j].op)
    /\ \A name \in {"syscall.Socket", "BindToDevice", "syscall.Connect",
                    "WriteMsg", "ReadMsg"} : Times(p, name) <= 1

ErrorsLeadToClosed(p, steps) ==
    \A i \in Idx(p) :
        (ops[p][i].op \in steps /\ ops[p][i].res # "ok") =>
            \A j \in Idx(p) : j > i => ops[p][j].op \in CloseOps

C16_SinglePassStateMachine ==
    \A p \in Procs :
        (BoundPath(p) /\ ~LiteralHost(p)) =>
            /\ SinglePass(p)
            /\ ErrorsLeadToClosed(p, {"syscall.Socket", "syscall.Connect",
                                      "net.FileConn", "WriteMsg", "ReadMsg"})
            /\ Returned(p) => deferred[p] = <<>>

\* C19: when the socket was created, BindToDevice is called exactly once, on
\* the descriptor syscall.Socket returned to this call, right after the
\* socket's creation: before the resolver address is validated and before
\* the connect.  So it has been called in a call that fails with an invalid
\* resolver address, and it is never called when the socket was not created.
BindCalls(p) == {i \in Idx(p) : ops[p][i].op = "BindToDevice"}

C19_BindOnceAfterSocket ==
    \A p \in Procs :
        (BoundPath(p) /\ ~LiteralHost(p)) =>
            /\ Cardinality(BindCalls(p)) <= 1
            /\ \A i \in BindCalls(p) :
                   /\ i = 2
                   /\ ops[p][1].op = "syscall.Socket" /\ ops[p][1].res = "ok"
                   /\ ops[p][i].fd = ops[p][1].fd
                   /\ ops[p][i].fd = socketFd[p]
            /\ (socketFd[p] # 0 /\ pc[p] # "bind") => BindCalls(p) # {}
            /\ pc[p] \in {"parseDns", "connect"} => BindCalls(p) # {}
            /\ err[p] = "InvalidResolverAddressError" => BindCalls(p) # {}
            /\ \A j \in Idx(p) : ops[p][j].op = "syscall.Connect" =>
                   \E i \in BindCalls(p) : i < j
            /\ socketFd[p] = 0 => BindCalls(p) = {}

C19_Witness ==
    \E p \in Procs :
        /\ BoundPath(p) /\ Returned(p)
        /\ host[p] = HostShort
        /\ config[p].BindToDeviceDnsServer = DnsEmpty
        /\ err[p] = "InvalidResolverAddressError"
        /\ Cardinality(BindCalls(p)) = 1
        /\ ~Has(p, "syscall.Connect")

\* C17: with calls running side by side and descriptor numbers handed out
\* again once closed, no call binds, connects, wraps, writes to, reads from
\* or closes a descriptor that another call has opened and not yet closed.
C17_HandlesNeverShared ==
    \A p \in Procs : \A i \in Idx(p) :
        ops[p][i].fd # 0 => ops[p][i].owner \in {0, p}

\* C18: a call on the bound path with a non-zero ConnectTimeout, once begun,
\* eventually returns with every descriptor it opened closed, whatever the
\* resolver does; a call with a zero ConnectTimeout that is reading from a
\* resolver that never responds stays in the read.
InFlight(p) == pc[p] \notin {"idle", "done"}
Closed(p) == Returned(p) /\ \A fd \in FDs : fds[fd] # p
BlockedForever(p) ==
    /\ pc[p] = "read"
    /\ config[p].ConnectTimeout = 0
    /\ peer[p] = "silent"

C18_ReturnsUnlessNoTimeout ==
    /\ \A p \in Callers :
           (BoundPath(p) /\ InFlight(p) /\ config[p].ConnectTimeout # 0)
               ~> Closed(p)
    /\ [][\A p \in Callers : BlockedForever(p) => BlockedForever(p)']_vars

C18_Witness ==
    \E p \in Callers :
        /\ BoundPath(p) /\ Closed(p)
        /\ config[p].ConnectTimeout = 1
        /\ peer[p] = "silent"
        /\ \E j \in Idx(p) :
              /\ ops[p][j].op = "ReadMsg"
              /\ ops[p][j].res = "timeout"
              /\ \E i \in Idx(p) :
                    /\ ops[p][i].op = "SetReadDeadline"
                    /\ ops[p][j].at = ops[p][i].at + 1
====
